---- MODULE Spec2Model ----
(***************************************************************************)
(* Model of the MCP stdio transport (backend/core/mcp_client.py) and of    *)
(* the lazily started, memoized tool clients of UnifiedAgent               *)
(* (backend/unified_agent.py).                                             *)
(*                                                                         *)
(* Concurrency model: the callers are asyncio coroutines on one event      *)
(* loop, so the code between two awaits is one atomic step.  The reader    *)
(* thread and the tool process run concurrently with them.                 *)
(***************************************************************************)
EXTENDS Integers, Sequences, FiniteSets, TLC

\* ---------------------------------------------------------------- bounds
NumTasks == 2          \* concurrent coroutines using the clients
MaxCalls == 2          \* _request invocations in one behaviour
TimeoutTicks == 2      \* timeout / 0.1 s poll interval, scaled down
MaxJunk == 1           \* lines on stdout that are not replies
MaxEnsure == 2         \* _ensure_* invocations in one behaviour
MaxClose == 1          \* UnifiedAgent.close() invocations in one behaviour
MaxTurns == 13         \* messages typed into the command-line loop
MaxChatTurns == 4      \* messages a session has got when /api/chat stops being called
MaxStreamTurns == 3    \* the same for /api/chat/stream
MaxChunks == 2         \* text chunks the model stream yields in one run
MaxLookups == 3        \* _get_or_create_agent calls in one behaviour

\* ------------------------------------------------------- program constants
max_history_for_summariser == 12   \* UnifiedAgent.max_history_for_summariser
SummaryPeriod == 3                 \* the 3 of "len(history) >= 3 and len(history) % 3 == 0"
max_history_exchanges == 3         \* UnifiedAgent.max_history_exchanges

Tasks == 1..NumTasks
Names == {"blinkit", "payment", "travel"}
JunkKinds == {"blank", "notjson", "nonobject", "noid", "nomarker"}

VARIABLES
    client,          \* [Names -> Nat]: 0 is None, k the k-th McpClient made for the name
    procs,           \* [Names -> Nat]: processes started for the name (Popen calls)
    alive,           \* [Names -> BOOLEAN]: the tool process is running
    reader,          \* [Names -> BOOLEAN]: the reader thread is running
    next_id,         \* [Names -> Nat]: McpClient.next_id
    stdout,          \* [Names -> Seq(line)]: lines written by the server, not yet read
    response_queue,  \* [Names -> Seq(msg)]: McpClient.response_queue
    task,            \* [Tasks -> record]: where each coroutine is
    script,          \* lines a scripted server still has to emit
    requests,        \* [Names -> Seq(record)]: every _request invocation, in order
    replied,         \* [Names -> SUBSET Nat]: ids the server has answered
    junk,            \* number of non-reply lines emitted so far
    inboxed,         \* [Names -> SUBSET msg]: messages the reader has put on the inbox
    history,         \* set of records: finished _request calls and how they ended
    ensure_calls,    \* [Names -> Nat]: _ensure_* invocations
    ensured_ready,   \* [Names -> Nat]: those made after initialize had returned
    close_log,       \* Seq(record): UnifiedAgent.close() invocations and how they ended
    conversation_history,  \* Seq([user, assistant]): UnifiedAgent.conversation_history
    conversation_summary,  \* UnifiedAgent.conversation_summary
    run,             \* [Tasks -> record]: the UnifiedAgent.run() call of each request
    queue,           \* [Tasks -> Seq(item)]: the asyncio.Queue of each streamed request
    events,          \* [Tasks -> Seq(event)]: what sse_generator has yielded
    gen,             \* [Tasks -> STRING]: where each sse_generator is
    turns,           \* messages received so far; the next message is turns + 1
    exchanges,       \* exchanges appended to conversation_history so far
    summariser_log,  \* Seq(record): _run_summariser calls that reached the summariser
    chat_agents,     \* set of [id, agent]: the dict _chat_agents
    agents,          \* Seq(record): the UnifiedAgent instances the server has made
    goc,             \* [Tasks -> record]: the _get_or_create_agent call of each slot
    reg_log          \* record of counters: get-or-create calls, tool uses, shutdowns

procVars == <<client, procs, alive, reader>>
wireVars == <<stdout, response_queue, script, replied, junk, inboxed>>
callVars == <<next_id, task, requests, history, ensure_calls, ensured_ready>>
sessVars == <<close_log, conversation_history, conversation_summary, run, queue,
              events, gen, turns, exchanges, summariser_log>>
regVars == <<chat_agents, agents, goc, reg_log>>
vars == <<procVars, wireVars, callVars, sessVars, regVars>>

Idle == [pc |-> "idle", op |-> "none", n |-> "none", id |-> 0,
         method |-> "none", elapsed |-> 0, sawError |-> FALSE]

Reply(i, e) == [kind |-> "reply", id |-> i, err |-> e]
Junk(k) == [kind |-> k, id |-> 0, err |-> FALSE]
Msg(line) == [id |-> line.id, err |-> line.err]

\* Sum of the lengths of the request logs of all clients.
TotalRequests == Len(requests["blinkit"]) + Len(requests["payment"]) + Len(requests["travel"])

\* Requests that tasks suspended in a wrapper's handshake will still send.
Reserved == Cardinality({t \in Tasks : task[t].pc = "wait" /\ task[t].op = "tool"
                                       /\ task[t].method = "initialize"})

TotalEnsures == ensure_calls["blinkit"] + ensure_calls["payment"] + ensure_calls["travel"]

\* Coroutines are anonymous: a new one takes the lowest free slot.
FreeSlot(t) == task[t].pc = "idle" /\ \A u \in Tasks : u < t => task[u].pc # "idle"

\* The initialize call of the client of name n has returned a result.
InitCompletedIn(hist, n) ==
    \E h \in hist : h.n = n /\ h.method = "initialize" /\ h.outcome = "result"

\* The request with this id was written while the process was running.
UpOf(n, id) == \E k \in 1..Len(requests[n]) : requests[n][k].id = id /\ requests[n][k].up

\* ------------------------------------------------------- McpClient._request

\* self.next_id += 1 (a variant that forgets the increment)
BumpStuck(id) == id

\* self.next_id += 1
Bump(id) == id + 1

\* stdin.write inside the try block: the failure is swallowed
WriteSwallowed(up) == "written"

\* self.process.stdin.write(...); flush(): raises when the pipe's reader is gone
WriteOutcome(up) == IF up THEN "written" ELSE "transport_error"

\* the id comparison left out
MatchesAny(msg, id) == TRUE

\* response.get("id") == request_id
Matches(msg, id) == msg.id = id

\* a peek that leaves the message on the queue
QueuePeek(q) == q

\* response_queue.get(): the head is removed
QueueGet(q) == Tail(q)

\* a mismatched reply counted against the deadline
StrayTicks(e) == e + 1

\* a reply with another id: the loop continues, elapsed is not advanced
StrayElapsed(e) == e

\* The start of _request up to its first await: allocate the id, write the
\* request.  nid is self.next_id on entry, up whether the process is
\* running, hist the history this step has built so far.
StartRequest(t, n, method, op, hist, nid, up) ==
    LET req == [id |-> nid, method |-> method, up |-> up,
                ready |-> InitCompletedIn(hist, n)]
    IN  /\ next_id' = [next_id EXCEPT ![n] = Bump(nid)]
        /\ requests' = [requests EXCEPT ![n] = Append(@, req)]
        /\ IF WriteOutcome(up) = "written"
             THEN /\ task' = [task EXCEPT ![t] =
                        [pc |-> "wait", op |-> op, n |-> n, id |-> nid,
                         method |-> method, elapsed |-> 0, sawError |-> FALSE]]
                  /\ history' = hist
             ELSE /\ task' = [task EXCEPT ![t] = Idle]
                  /\ history' = hist \cup
                        {[n |-> n, id |-> nid, method |-> method,
                          outcome |-> "transport_error", reply |-> 0,
                          arrived |-> FALSE, sawError |-> FALSE, up |-> up]}

\* _request returns or raises; the wrapper that awaited it runs on to its
\* next await: search_products and the like send tools/call as soon as
\* _ensure_* has returned.
Finish(t, outcome, replyId, saw) ==
    LET c == task[t]
        h == [n |-> c.n, id |-> c.id, method |-> c.method, outcome |-> outcome,
              reply |-> replyId,
              arrived |-> [id |-> c.id, err |-> FALSE] \in inboxed[c.n],
              sawError |-> saw, up |-> UpOf(c.n, c.id)]
        hist == history \cup {h}
    IN  IF c.op = "tool" /\ c.method = "initialize" /\ outcome = "result"
          THEN StartRequest(t, c.n, "tools/call", "tool", hist, next_id[c.n], alive[c.n])
          ELSE /\ task' = [task EXCEPT ![t] = Idle]
               /\ history' = hist
               /\ UNCHANGED <<next_id, requests>>

\* except: await asyncio.sleep(0.1); elapsed += 0.1; continue -- and the loop
\* test, which raises TimeoutError once elapsed has reached the timeout.
\* err: the exception caught was the RPC error raised two lines above.
Tick(t, err) ==
    LET c == task[t]
    IN  IF c.elapsed + 1 >= TimeoutTicks
          THEN Finish(t, "timeout", 0, c.sawError \/ err)
          ELSE /\ task' = [task EXCEPT ![t].elapsed = @ + 1,
                                       ![t].sawError = @ \/ err]
               /\ UNCHANGED <<next_id, requests, history>>

\* response_queue.get(timeout=0.1) returned a message.
PollGet(t) ==
    /\ task[t].pc = "wait"
    /\ response_queue[task[t].n] # <<>>
    /\ LET c == task[t]
           n == c.n
           msg == Head(response_queue[n])
       IN  /\ response_queue' = [response_queue EXCEPT ![n] = QueueGet(@)]
           /\ IF Matches(msg, c.id)
                THEN IF msg.err
                       THEN Tick(t, TRUE)   \* the raise is caught by the bare except
                       ELSE Finish(t, "result", msg.id, c.sawError)
                ELSE /\ task' = [task EXCEPT ![t].elapsed = StrayElapsed(@)]
                     /\ UNCHANGED <<next_id, requests, history>>
    /\ UNCHANGED <<procVars, stdout, script, replied, junk, inboxed, ensure_calls, ensured_ready>>
    /\ UNCHANGED <<sessVars, regVars>>

\* response_queue.get(timeout=0.1) raised Empty.
PollEmpty(t) ==
    /\ task[t].pc = "wait"
    /\ response_queue[task[t].n] = <<>>
    /\ Tick(t, FALSE)
    /\ UNCHANGED <<procVars, wireVars, ensure_calls, ensured_ready>>
    /\ UNCHANGED <<sessVars, regVars>>

\* A coroutine awaits client.call_tool(...) on an existing client.
RpcCall(t, n) ==
    /\ FreeSlot(t)
    /\ client[n] # 0
    /\ TotalRequests + Reserved < MaxCalls
    /\ StartRequest(t, n, "tools/call", "call", history, next_id[n], alive[n])
    /\ UNCHANGED <<procVars, wireVars, ensure_calls, ensured_ready>>
    /\ UNCHANGED <<sessVars, regVars>>

\* ------------------------------------------------------------ reader thread

\* what reader() does with one line of stdout
ReaderVerdict(line) ==
    CASE line.kind = "blank"     -> "skip"     \* if not line: continue
      [] line.kind = "notjson"   -> "skip"     \* json.JSONDecodeError: continue
      [] line.kind = "nonobject" -> "crash"    \* msg.get on a non-dict: AttributeError
      [] line.kind = "noid"      -> "skip"
      [] line.kind = "nomarker"  -> "skip"
      [] line.kind = "reply"     -> "put"

ReaderStep(n) ==
    /\ reader[n]
    /\ stdout[n] # <<>>
    /\ LET line == Head(stdout[n])
           v == ReaderVerdict(line)
       IN  /\ stdout' = [stdout EXCEPT ![n] = Tail(@)]
           /\ response_queue' = [response_queue EXCEPT ![n] =
                                   IF v = "put" THEN Append(@, Msg(line)) ELSE @]
           /\ inboxed' = [inboxed EXCEPT ![n] =
                                   IF v = "put" THEN @ \cup {Msg(line)} ELSE @]
           /\ reader' = [reader EXCEPT ![n] = (v # "crash")]
    /\ UNCHANGED <<client, procs, alive, script, replied, junk, callVars>>
    /\ UNCHANGED <<sessVars, regVars>>

\* for line in self.process.stdout: ends at end of file
ReaderEOF(n) ==
    /\ reader[n]
    /\ ~alive[n]
    /\ client[n] # 0
    /\ stdout[n] = <<>>
    /\ reader' = [reader EXCEPT ![n] = FALSE]
    /\ UNCHANGED <<client, procs, alive, wireVars, callVars>>
    /\ UNCHANGED <<sessVars, regVars>>

\* ------------------------------------------------------------ tool process

\* The server answers a request it has received, in any order, once.
ServerReply(n, i, e) ==
    /\ alive[n]
    /\ i \notin replied[n]
    /\ \E k \in 1..Len(requests[n]) : requests[n][k].id = i /\ requests[n][k].up
    /\ stdout' = [stdout EXCEPT ![n] = Append(@, Reply(i, e))]
    /\ replied' = [replied EXCEPT ![n] = @ \cup {i}]
    /\ UNCHANGED <<procVars, response_queue, script, junk, inboxed, callVars>>
    /\ UNCHANGED <<sessVars, regVars>>

\* The server prints something that is not a reply.
ServerJunk(n, k) ==
    /\ alive[n]
    /\ junk < MaxJunk
    /\ stdout' = [stdout EXCEPT ![n] = Append(@, Junk(k))]
    /\ junk' = junk + 1
    /\ UNCHANGED <<procVars, response_queue, script, replied, inboxed, callVars>>
    /\ UNCHANGED <<sessVars, regVars>>

\* The tool process exits.
ProcessExit(n) ==
    /\ alive[n]
    /\ alive' = [alive EXCEPT ![n] = FALSE]
    /\ UNCHANGED <<client, procs, reader, wireVars, callVars>>
    /\ UNCHANGED <<sessVars, regVars>>

\* ------------------------------------------- UnifiedAgent._ensure_* and wrappers

\* the memoization test left out
EnsureGuardAlways(c) == TRUE

\* if self.blinkit_client is None:
EnsureGuard(c) == c = 0

\* self.x_client = McpClient(...): Popen starts the process, __init__ sets
\* next_id = 1 and an empty queue and starts the reader; the attribute is
\* assigned before initialize() is awaited.
Spawn(n) ==
    /\ client' = [client EXCEPT ![n] = procs[n] + 1]
    /\ procs' = [procs EXCEPT ![n] = @ + 1]
    /\ alive' = [alive EXCEPT ![n] = TRUE]
    /\ reader' = [reader EXCEPT ![n] = TRUE]
    /\ stdout' = [stdout EXCEPT ![n] = <<>>]
    /\ response_queue' = [response_queue EXCEPT ![n] = <<>>]

\* await agent._ensure_x() on its own, as _get_or_create_agent does.
EnsureCall(t, n) ==
    /\ FreeSlot(t)
    /\ TotalEnsures < MaxEnsure
    /\ ensure_calls' = [ensure_calls EXCEPT ![n] = @ + 1]
    /\ ensured_ready' = [ensured_ready EXCEPT ![n] =
                            IF InitCompletedIn(history, n) THEN @ + 1 ELSE @]
    /\ IF EnsureGuard(client[n])
         THEN \/ /\ TotalRequests + Reserved < MaxCalls
                 /\ Spawn(n)
                 /\ StartRequest(t, n, "initialize", "ensure", history, 1, TRUE)
                 /\ UNCHANGED <<script, replied, junk, inboxed>>
              \/ \* Popen raises: nothing is assigned, the exception propagates
                 UNCHANGED <<procVars, wireVars, next_id, task, requests, history>>
         ELSE UNCHANGED <<procVars, wireVars, next_id, task, requests, history>>
    /\ UNCHANGED <<sessVars, regVars>>

\* A tool wrapper (search_products, view_cart, create_payment, ...):
\* await self._ensure_x(); await self.x_client.call_tool(...)
ToolCall(t, n) ==
    /\ FreeSlot(t)
    /\ TotalEnsures < MaxEnsure
    /\ ensure_calls' = [ensure_calls EXCEPT ![n] = @ + 1]
    /\ ensured_ready' = [ensured_ready EXCEPT ![n] =
                            IF InitCompletedIn(history, n) THEN @ + 1 ELSE @]
    /\ IF EnsureGuard(client[n])
         THEN \/ /\ TotalRequests + Reserved + 1 < MaxCalls
                 /\ Spawn(n)
                 /\ StartRequest(t, n, "initialize", "tool", history, 1, TRUE)
                 /\ UNCHANGED <<script, replied, junk, inboxed>>
              \/ UNCHANGED <<procVars, wireVars, next_id, task, requests, history>>
         ELSE /\ TotalRequests + Reserved < MaxCalls
              /\ StartRequest(t, n, "tools/call", "tool", history, next_id[n], alive[n])
              /\ UNCHANGED <<procVars, wireVars>>
    /\ UNCHANGED <<sessVars, regVars>>

\* A scripted server emits its next line.
ServerScript(n) ==
    /\ alive[n]
    /\ script # <<>>
    /\ stdout' = [stdout EXCEPT ![n] = Append(@, Head(script))]
    /\ script' = Tail(script)
    /\ UNCHANGED <<procVars, response_queue, replied, junk, inboxed, callVars>>
    /\ UNCHANGED <<sessVars, regVars>>

\* McpClient.close(): self.process.terminate(); self.process.wait()
Close(n) ==
    /\ client[n] # 0
    /\ alive' = [alive EXCEPT ![n] = FALSE]
    /\ UNCHANGED <<client, procs, reader, wireVars, callVars>>
    /\ UNCHANGED <<sessVars, regVars>>

\* ------------------------------------------------------------ specification

NoClient == [n \in Names |-> 0]

\* No run() call: the slot of a request that has not arrived.
RunIdle == [pc |-> "idle", msg |-> 0, writer |-> FALSE, chunks |-> 0,
            previous_output |-> <<>>, final_output |-> <<>>, sent |-> <<>>,
            call |-> 0, response |-> <<>>, exc |-> <<>>]

\* conversation_summary = "".  A summary text is represented by the
\* summariser call that produced it: n is the number of the call, merged the
\* number of the call that produced the summary given in its prompt (0 for the
\* first-run prompt), turns the messages of the exchanges given in its prompt.
EmptySummary == [n |-> 0, merged |-> 0, turns |-> <<>>]

\* what a non-streaming model call, or get_output(), returns as text
Outputs == {<<"a">>}

\* The session after k exchanges made one after the other, k < SummaryPeriod.
SessionAfter(k) ==
    /\ conversation_history = [i \in 1..k |-> [user |-> i, assistant |-> <<"a">>]]
    /\ conversation_summary = EmptySummary
    /\ turns = k
    /\ exchanges = k
    /\ summariser_log = <<>>

\* No _get_or_create_agent call: the slot of a request that has not arrived.
GocIdle == [pc |-> "idle", arg |-> [uuid |-> FALSE, k |-> 0],
            id |-> [uuid |-> FALSE, k |-> 0], agent |-> 0, stage |-> 0,
            created |-> FALSE]

\* no request is being served and none has been: the module has just been
\* loaded, _chat_agents = {}
NoRequest ==
    /\ run = [t \in Tasks |-> RunIdle]
    /\ queue = [t \in Tasks |-> <<>>]
    /\ events = [t \in Tasks |-> <<>>]
    /\ gen = [t \in Tasks |-> "none"]
    /\ chat_agents = {}
    /\ agents = <<>>
    /\ goc = [t \in Tasks |-> GocIdle]
    /\ reg_log = [lookups |-> 0, tools |-> 0, shutdowns |-> 0]

\* UnifiedAgent.__init__: nothing has been asked of the agent yet.
SessionIdle ==
    /\ close_log = <<>>
    /\ SessionAfter(0)
    /\ NoRequest

\* One McpClient, just constructed.
Init ==
    /\ client = [NoClient EXCEPT !["blinkit"] = 1]
    /\ procs = [NoClient EXCEPT !["blinkit"] = 1]
    /\ alive = [n \in Names |-> n = "blinkit"]
    /\ reader = [n \in Names |-> n = "blinkit"]
    /\ next_id = [n \in Names |-> 1]
    /\ stdout = [n \in Names |-> <<>>]
    /\ response_queue = [n \in Names |-> <<>>]
    /\ task = [t \in Tasks |-> Idle]
    /\ script = <<>>
    /\ requests = [n \in Names |-> <<>>]
    /\ replied = [n \in Names |-> {}]
    /\ junk = 0
    /\ inboxed = [n \in Names |-> {}]
    /\ history = {}
    /\ ensure_calls = [n \in Names |-> 0]
    /\ ensured_ready = [n \in Names |-> 0]
    /\ SessionIdle

Next ==
    \/ \E t \in Tasks, n \in Names : RpcCall(t, n)
    \/ \E t \in Tasks : PollGet(t)
    \/ \E t \in Tasks : PollEmpty(t)
    \/ \E n \in Names : ReaderStep(n)
    \/ \E n \in Names : ReaderEOF(n)
    \/ \E n \in Names, i \in 1..MaxCalls, e \in BOOLEAN : ServerReply(n, i, e)
    \/ \E n \in Names : ProcessExit(n)
    \/ \E n \in Names : Close(n)

Spec == Init /\ [][Next]_vars

\* A freshly constructed UnifiedAgent: no client has been started.
PoolInit ==
    /\ client = NoClient
    /\ procs = NoClient
    /\ alive = [n \in Names |-> FALSE]
    /\ reader = [n \in Names |-> FALSE]
    /\ next_id = [n \in Names |-> 1]
    /\ stdout = [n \in Names |-> <<>>]
    /\ response_queue = [n \in Names |-> <<>>]
    /\ task = [t \in Tasks |-> Idle]
    /\ script = <<>>
    /\ requests = [n \in Names |-> <<>>]
    /\ replied = [n \in Names |-> {}]
    /\ junk = 0
    /\ inboxed = [n \in Names |-> {}]
    /\ history = {}
    /\ ensure_calls = [n \in Names |-> 0]
    /\ ensured_ready = [n \in Names |-> 0]
    /\ SessionIdle

PoolNext ==
    \/ \E t \in Tasks, n \in Names : EnsureCall(t, n)
    \/ \E t \in Tasks, n \in Names : ToolCall(t, n)
    \/ \E t \in Tasks : PollGet(t)
    \/ \E t \in Tasks : PollEmpty(t)
    \/ \E n \in Names : ReaderStep(n)
    \/ \E n \in Names, i \in 1..MaxCalls, e \in BOOLEAN : ServerReply(n, i, e)

PoolSpec == PoolInit /\ [][PoolNext]_vars

\* Two call_tool calls (ids 1 and 2) are pending on one client; the server
\* will print the reply to 2, the line "not json", the reply to 1.
ScenarioInit ==
    /\ client = [NoClient EXCEPT !["blinkit"] = 1]
    /\ procs = [NoClient EXCEPT !["blinkit"] = 1]
    /\ alive = [n \in Names |-> n = "blinkit"]
    /\ reader = [n \in Names |-> n = "blinkit"]
    /\ next_id = [n \in Names |-> IF n = "blinkit" THEN 3 ELSE 1]
    /\ stdout = [n \in Names |-> <<>>]
    /\ response_queue = [n \in Names |-> <<>>]
    /\ task = [t \in Tasks |->
                 IF t <= 2
                   THEN [pc |-> "wait", op |-> "call", n |-> "blinkit", id |-> t,
                         method |-> "tools/call", elapsed |-> 0, sawError |-> FALSE]
                   ELSE Idle]
    /\ script = <<Reply(2, FALSE), Junk("notjson"), Reply(1, FALSE)>>
    /\ requests = [n \in Names |->
                     IF n = "blinkit"
                       THEN <<[id |-> 1, method |-> "tools/call", up |-> TRUE, ready |-> FALSE],
                              [id |-> 2, method |-> "tools/call", up |-> TRUE, ready |-> FALSE]>>
                       ELSE <<>>]
    /\ replied = [n \in Names |-> IF n = "blinkit" THEN {1, 2} ELSE {}]
    /\ junk = 0
    /\ inboxed = [n \in Names |-> {}]
    /\ history = {}
    /\ ensure_calls = [n \in Names |-> 0]
    /\ ensured_ready = [n \in Names |-> 0]
    /\ SessionIdle

ScenarioNext ==
    \/ \E n \in Names : ServerScript(n)
    \/ \E n \in Names : ReaderStep(n)
    \/ \E t \in Tasks : PollGet(t)
    \/ \E t \in Tasks : PollEmpty(t)

ScenarioSpec == ScenarioInit /\ [][ScenarioNext]_vars

\* ------------------------------------------------------------------ claims

InQueue(n, i) == \E k \in 1..Len(response_queue[n]) : response_queue[n][k].id = i

TimedOutIds(n) == {h.id : h \in {g \in history : g.n = n /\ g.outcome = "timeout"}}

Initializes(n) == {k \in 1..Len(requests[n]) : requests[n][k].method = "initialize"}

HandshakePending(n) ==
    \E t \in Tasks : task[t].pc = "wait" /\ task[t].n = n /\ task[t].method = "initialize"

\* C1: every call whose (non-error) reply was put on the inbox before the call
\* ended returns that reply, the one carrying its own id.
C1_EveryArrivedReplyIsReturned ==
    \A h \in history : h.arrived => (h.outcome = "result" /\ h.reply = h.id)

\* C2: a matched reply with an error field ends the call at once with an RPC
\* error: no call keeps waiting after it, and none ends in TimeoutError.
C2_ErrorReplyRaisesRpcError ==
    /\ \A t \in Tasks : task[t].pc = "wait" => ~task[t].sawError
    /\ \A h \in history : h.sawError => h.outcome = "rpc_error"

C4_ReplyConsumedOnceByItsCall ==
    /\ \A h \in history : h.outcome = "result" =>
          /\ h.reply = h.id
          /\ [id |-> h.reply, err |-> FALSE] \in inboxed[h.n]
          /\ ~InQueue(h.n, h.reply)
    /\ \A h \in history, g \in history :
          (h.outcome = "result" /\ g.outcome = "result" /\ h.n = g.n /\ h.reply = g.reply)
          => h = g
    /\ \A n \in Names : \A i \in 1..Len(response_queue[n]), j \in 1..Len(response_queue[n]) :
          response_queue[n][i] = response_queue[n][j] => i = j

\* C4 witness: one reply was returned to its call and another was taken from
\* the inbox and dropped.
C4_Witness ==
    \E h \in history : \E m \in inboxed[h.n] :
        /\ h.outcome = "result" /\ h.reply = h.id
        /\ m.id # h.id /\ ~m.err /\ ~InQueue(h.n, m.id)
        /\ ~\E g \in history : g.n = h.n /\ g.outcome = "result" /\ g.reply = m.id

\* C5: in the scenario (replies 2, "not json", 1 with calls 1 and 2 pending)
\* the reader survives the malformed line and each of the two calls whose
\* reply reached the inbox before it ended resolves with its own reply.
C5_ScenarioBothCallsResolve ==
    /\ reader["blinkit"]
    /\ \A h \in history :
          (h.id \in {1, 2} /\ h.arrived) => (h.outcome = "result" /\ h.reply = h.id)

\* C6: the ids given out by one client are strictly increasing in the order of
\* the calls, next_id is above all of them, and no two calls in flight carry
\* the same id.
C6_IdsStrictlyIncreasing ==
    \A n \in Names :
        /\ \A i \in 1..Len(requests[n]), j \in 1..Len(requests[n]) :
              i < j => requests[n][i].id < requests[n][j].id
        /\ \A i \in 1..Len(requests[n]) : requests[n][i].id < next_id[n]
        /\ \A t \in Tasks, u \in Tasks :
              (t # u /\ task[t].pc = "wait" /\ task[u].pc = "wait" /\ task[t].n = n
                 /\ task[u].n = n) => task[t].id # task[u].id

\* C6 witness: a call has timed out and a later call is in flight.
C6_Witness ==
    \E h \in history, t \in Tasks :
        /\ h.outcome = "timeout" /\ task[t].pc = "wait" /\ task[t].n = h.n
        /\ task[t].id > h.id

\* C7: a call made when the process has exited ends in a transport error that
\* reaches the caller, and the call never waits for a reply.
C7_DeadProcessRaisesTransportError ==
    \A n \in Names : \A k \in 1..Len(requests[n]) :
        ~requests[n][k].up =>
            /\ \E h \in history : h.n = n /\ h.id = requests[n][k].id
                                  /\ h.outcome = "transport_error"
            /\ \A t \in Tasks : ~(task[t].pc = "wait" /\ task[t].n = n
                                  /\ task[t].id = requests[n][k].id)

\* C7 witness: a call was made after the process had exited.
C7_Witness ==
    \E h \in history : h.outcome = "transport_error" /\ ~alive[h.n] /\ client[h.n] # 0

\* C8: while the first ensure for a name is suspended in its initialize
\* handshake and ensure has been called again for that name, exactly one
\* process has been started for the name.
C8_SingleFlightStart ==
    \A n \in Names :
        (HandshakePending(n) /\ ensure_calls[n] >= 2) => procs[n] = 1

\* C8 witness: one coroutine is in the handshake and another, whose ensure
\* returned at once, already waits for its tools/call on the same client.
C8_Witness ==
    \E t \in Tasks, u \in Tasks :
        /\ task[t].pc = "wait" /\ task[t].method = "initialize"
        /\ task[u].pc = "wait" /\ task[u].op = "tool" /\ task[u].method = "tools/call"
        /\ task[u].n = task[t].n
        /\ procs[task[t].n] = 1

\* C9: an ensure called for a name whose initialize has already returned
\* starts no process, sends no initialize request and leaves the memoized
\* client as it is.
C9_EnsureIdempotent ==
    [][ \A n \in Names :
          (InitCompletedIn(history, n) /\ ensure_calls'[n] = ensure_calls[n] + 1)
          => /\ procs'[n] = procs[n]
             /\ client'[n] = client[n]
             /\ alive'[n] = alive[n]
             /\ \A k \in 1..Len(requests'[n]) :
                   k > Len(requests[n]) => requests'[n][k].method # "initialize"
      ]_vars

\* C9 witness: ensure was called for a name after its handshake had
\* completed, and the name still has its one process and one initialize.
C9_Witness ==
    \E n \in Names :
        /\ ensured_ready[n] >= 1
        /\ procs[n] = 1 /\ client[n] = 1
        /\ Cardinality(Initializes(n)) = 1

\* C10: every started transport has sent initialize exactly once, and every
\* other request was sent after that initialize call had returned a result.
C10_InitializeBeforeOtherMethods ==
    \A n \in Names :
        /\ client[n] # 0 => Cardinality(Initializes(n)) = 1
        /\ \A k \in 1..Len(requests[n]) :
              requests[n][k].method # "initialize" => requests[n][k].ready

\* ------------------------------------------------------ UnifiedAgent.close

\* the clients close() looks at, in the order it looks at them
ClosedByAgent == <<"blinkit", "payment">>

\* The names whose terminate() is reached and succeeds when the terminate()
\* of f raises ("none": no terminate raises): every started client of the
\* list that comes before the first started client whose terminate raises.
Terminated(f) ==
    {ClosedByAgent[i] : i \in {j \in 1..Len(ClosedByAgent) :
        /\ client[ClosedByAgent[j]] # 0
        /\ \A k \in 1..j : ~(ClosedByAgent[k] = f /\ client[f] # 0)}}

\* await agent.close(): no await inside, one atomic step.  McpClient.close()
\* is process.terminate(); process.wait(); an exception of either leaves
\* close() at once, there is no try around the calls.
AgentClose(f) ==
    /\ Len(close_log) < MaxClose
    /\ f = "none" \/ (\E i \in 1..Len(ClosedByAgent) : ClosedByAgent[i] = f /\ client[f] # 0)
    /\ alive' = [n \in Names |-> IF n \in Terminated(f) THEN FALSE ELSE alive[n]]
    /\ close_log' = Append(close_log,
                       [result |-> IF f = "none" THEN "returned" ELSE "raised",
                        failed |-> f])
    /\ UNCHANGED <<client, procs, reader, wireVars, callVars>>
    /\ UNCHANGED <<conversation_history, conversation_summary, run, queue, events, gen,
                   turns, exchanges, summariser_log, regVars>>

\* An agent whose clients are started by _ensure_* (as startup_event and
\* _get_or_create_agent do) and which is closed at some point.
CloseNext ==
    \/ \E t \in Tasks, n \in Names : EnsureCall(t, n)
    \/ \E t \in Tasks : PollGet(t)
    \/ \E t \in Tasks : PollEmpty(t)
    \/ \E n \in Names : ReaderStep(n)
    \/ \E n \in Names, i \in 1..MaxCalls : ServerReply(n, i, FALSE)
    \/ \E f \in Names \cup {"none"} : AgentClose(f)

CloseSpec == PoolInit /\ [][CloseNext]_vars

\* the step is a close() call
CloseStep == Len(close_log') = Len(close_log) + 1

\* C11: when close() returns, no process of a client the session has started
\* is still running, whichever of the three clients it is.
C11_CloseTerminatesEveryStartedTransport ==
    [][ (CloseStep /\ close_log'[Len(close_log')].result = "returned")
        => \A n \in Names : client[n] # 0 => ~alive'[n] ]_vars

\* C12: when the terminate of one started client raises during close(), the
\* close() call still returns normally and every other started client that
\* close() handles has been terminated.
C12_CloseIsBestEffort ==
    [][ (CloseStep /\ close_log'[Len(close_log')].failed # "none")
        => /\ close_log'[Len(close_log')].result = "returned"
           /\ \A i \in 1..Len(ClosedByAgent) :
                 (client[ClosedByAgent[i]] # 0
                    /\ ClosedByAgent[i] # close_log'[Len(close_log')].failed)
                 => ~alive'[ClosedByAgent[i]] ]_vars

\* --------------------------------------------------------- UnifiedAgent.run

\* Texts are sequences of symbols; "#" stands for the ten characters
\* "__ERROR__:" and "a" for any other character.
Chars == {"a", "#"}
Texts == {<<>>} \cup {<<c>> : c \in Chars} \cup {<<c, d>> : c \in Chars, d \in Chars}
Marker == <<"#">>

\* str(e) of the exception a failing model call raises
ExcMessages == {<<"a">>}

\* what _run_summariser gets from the summariser agent: a text, a text of
\* white space only, or an exception / an empty or non-string output
SummariserOutcomes == {"text", "blank", "fail"}

Item(text) == [none |-> FALSE, text |-> text]
NoneItem == [none |-> TRUE, text |-> <<>>]

\* what stream_text() may yield: a text or None
Chunks == {Item(x) : x \in Texts} \cup {NoneItem}

\* text.startswith(prefix)
StartsWith(text, prefix) ==
    /\ Len(prefix) <= Len(text)
    /\ SubSeq(text, 1, Len(prefix)) = prefix

\* no comparison with the previous chunk: the whole chunk is handed over
NewPartWhole(text, previous) == text

\* the part of a chunk that is handed to the writer
NewPart(text, previous) ==
    IF StartsWith(text, previous)
      THEN SubSeq(text, Len(previous) + 1, Len(text))
      ELSE text

\* the trigger of the summariser, never true
SummariserDueNever(len) == FALSE

\* if len(self.conversation_history) >= 3 and len(self.conversation_history) % 3 == 0
SummariserDue(len) == len >= SummaryPeriod /\ len % SummaryPeriod = 0

\* a history that is never cut
LastOfKeepsAll(h, k) == h

\* self.conversation_history[-k:]
LastOf(h, k) == IF Len(h) > k THEN SubSeq(h, Len(h) - k + 1, Len(h)) ELSE h

UsersOf(h) == [i \in 1..Len(h) |-> h[i].user]

\* a failing run that stores what it had got so far
AfterFailureStoresPartial(h, ex) == Append(h, ex)

\* except Exception as e: log; raise -- nothing is stored for the failed turn
AfterFailure(h, ex) == h

\* a run_agent whose failure branch puts the error item and nothing else
EpilogOneItem(q, failed, m) ==
    Append(q, IF failed THEN Item(Marker \o m) ELSE NoneItem)

\* a queue made with maxsize 1
FullAtOne(q) == Len(q) >= 1

\* queue = asyncio.Queue(): no maxsize, so the queue is never full
Full(q) == FALSE

\* run_agent after agent.run(): except puts "__ERROR__:" + str(e), finally
\* puts None.  The queue is unbounded, so neither put suspends.
Epilog(q, failed, m) ==
    IF failed THEN q \o <<Item(Marker \o m), NoneItem>> ELSE Append(q, NoneItem)

\* an exchange stored in front of the others
StoreInFront(h, ex) == <<ex>> \o h

\* self.conversation_history.append((user_message, str(assistant_response)))
Store(h, ex) == Append(h, ex)

\* a cut to the last max_history_exchanges exchanges while there is no summary
HistoryCapRecent(summary) ==
    IF summary = EmptySummary THEN max_history_exchanges ELSE max_history_for_summariser

\* if len(self.conversation_history) > self.max_history_for_summariser: the
\* length the history is cut to, which does not depend on the summary
HistoryCap(summary) == max_history_for_summariser

\* The request of slot r is over and nothing of it is still running; a new
\* request takes the lowest such slot.
SlotDone(r) ==
    /\ run[r].pc \in {"idle", "returned", "raised"}
    /\ gen[r] \in {"none", "closed_done", "closed_error", "disconnected"}

FreeRun(r) == SlotDone(r) /\ \A u \in Tasks : u < r => ~SlotDone(u)

\* no request is in progress
Quiet == \A t \in Tasks : SlotDone(t)

\* run() from the append of the exchange on (lines 764-779): append, trim to
\* max_history_for_summariser, and either return or call _run_summariser,
\* which builds its prompt from the summary and the last three exchanges
\* before it awaits the summariser.
Complete(r, text) ==
    LET h1 == Store(conversation_history, [user |-> run[r].msg, assistant |-> text])
        h2 == LastOf(h1, HistoryCap(conversation_summary))
    IN  /\ conversation_history' = h2
        /\ exchanges' = exchanges + 1
        /\ IF SummariserDue(Len(h2))
             THEN /\ summariser_log' = Append(summariser_log,
                        [at |-> exchanges + 1, merged |-> conversation_summary.n,
                         turns |-> UsersOf(LastOf(h2, SummaryPeriod)),
                         outcome |-> "pending"])
                  /\ run' = [run EXCEPT ![r].pc = "summarising",
                                        ![r].call = Len(summariser_log) + 1,
                                        ![r].response = text,
                                        ![r].final_output = text]
                  /\ queue' = queue
             ELSE /\ summariser_log' = summariser_log
                  /\ run' = [run EXCEPT ![r].pc = "returned", ![r].response = text,
                                        ![r].final_output = text]
                  /\ queue' = [queue EXCEPT ![r] =
                                  IF run[r].writer THEN Epilog(@, FALSE, <<>>) ELSE @]
        /\ UNCHANGED <<conversation_summary, events, gen, turns, close_log>>

mcpVars == <<procVars, wireVars, callVars>>

\* run() up to its first await: the message is numbered and the model is called
BeginRun(r, w) ==
    /\ run' = [run EXCEPT ![r] = [RunIdle EXCEPT !.pc = "model", !.msg = turns + 1,
                                                  !.writer = w]]
    /\ turns' = turns + 1

ResetStream(r, g, ev) ==
    /\ queue' = [queue EXCEPT ![r] = <<>>]
    /\ events' = [events EXCEPT ![r] = ev]
    /\ gen' = [gen EXCEPT ![r] = g]

\* main(): print("Agent:", await agent.run(user)); an exception ends the loop
RunCall(r) ==
    /\ FreeRun(r)
    /\ Quiet
    /\ \A t \in Tasks : run[t].pc # "raised"
    /\ turns < MaxTurns
    /\ BeginRun(r, FALSE)
    /\ ResetStream(r, "none", <<>>)
    /\ UNCHANGED <<conversation_history, conversation_summary, exchanges,
                   summariser_log, close_log, mcpVars, regVars>>

\* POST /api/chat with the id of the session: reply = await agent.run(message)
ChatRequest(r) ==
    /\ FreeRun(r)
    /\ turns < MaxChatTurns
    /\ BeginRun(r, FALSE)
    /\ ResetStream(r, "none", <<>>)
    /\ UNCHANGED <<conversation_history, conversation_summary, exchanges,
                   summariser_log, close_log, mcpVars, regVars>>

\* a generator that does not send the chat_id event
ChatIdEventMissing == <<>>

\* yield the chat_id event: what has been sent when sse_generator first yields
ChatIdEvent == <<[type |-> "chat_id", text |-> <<>>]>>

\* POST /api/chat/stream with the id of the session: sse_generator runs up to
\* its first yield, the chat_id event.  The client sends it when the requests
\* it has made before are over.
StreamRequest(r) ==
    /\ FreeRun(r)
    /\ Quiet
    /\ turns < MaxStreamTurns
    /\ run' = [run EXCEPT ![r] = [RunIdle EXCEPT !.msg = turns + 1]]
    /\ turns' = turns + 1
    /\ ResetStream(r, "opened", ChatIdEvent)
    /\ UNCHANGED <<conversation_history, conversation_summary, exchanges,
                   summariser_log, close_log, mcpVars, regVars>>

\* sse_generator resumed after the chat_id event: the queue is made,
\* run_agent is started as a task and the generator waits on queue.get().
GenStart(r) ==
    /\ gen[r] = "opened"
    /\ gen' = [gen EXCEPT ![r] = "drain"]
    /\ run' = [run EXCEPT ![r].pc = "model", ![r].writer = TRUE]
    /\ UNCHANGED <<conversation_history, conversation_summary, queue, events, turns,
                   exchanges, summariser_log, close_log, mcpVars, regVars>>

\* resp = await self.agent.run(full_message) returns
ModelReturn(r, out) ==
    /\ run[r].pc = "model"
    /\ ~run[r].writer
    /\ Complete(r, out)
    /\ UNCHANGED <<mcpVars, regVars>>

\* The model call raises: agent.run(), run_stream(), stream_text() at any
\* chunk, or get_output().
ModelRaise(r, m) ==
    /\ run[r].pc = "model"
    /\ run' = [run EXCEPT ![r].pc = "raised", ![r].exc = m]
    /\ conversation_history' = AfterFailure(conversation_history,
                                  [user |-> run[r].msg, assistant |-> run[r].final_output])
    /\ queue' = [queue EXCEPT ![r] = IF run[r].writer THEN Epilog(@, TRUE, m) ELSE @]
    /\ UNCHANGED <<conversation_summary, events, gen, turns, exchanges,
                   summariser_log, close_log, mcpVars, regVars>>

\* One iteration of "async for text_chunk in stream_result.stream_text()".
StreamChunk(r, c) ==
    /\ run[r].pc = "model"
    /\ run[r].writer
    /\ run[r].chunks < MaxChunks
    /\ IF c.none
         THEN /\ run' = [run EXCEPT ![r].chunks = @ + 1]      \* continue
              /\ queue' = queue
         ELSE LET new_part == NewPart(c.text, run[r].previous_output)
              IN  IF new_part # <<>> /\ Full(queue[r])
                    THEN \* await queue.put(text) on a full queue: the run waits
                         /\ run' = [run EXCEPT ![r].pc = "put_wait"]
                         /\ queue' = queue
                    ELSE /\ run' = [run EXCEPT ![r].chunks = @ + 1,
                                               ![r].final_output = c.text,
                                               ![r].previous_output = c.text,
                                               ![r].sent = IF new_part # <<>>
                                                             THEN Append(@, new_part) ELSE @]
                         \* writer: text = chunk.get("content", ""); if text: queue.put(text)
                         /\ queue' = [queue EXCEPT ![r] = IF new_part # <<>>
                                                            THEN Append(@, Item(new_part)) ELSE @]
    /\ UNCHANGED <<conversation_history, conversation_summary, events, gen, turns,
                   exchanges, summariser_log, close_log, mcpVars, regVars>>

\* The stream is exhausted: final_output is the last chunk, or
\* get_output().output when no chunk left a text.
StreamEnd(r, out) ==
    /\ run[r].pc = "model"
    /\ run[r].writer
    /\ Complete(r, IF run[r].final_output = <<>> THEN out ELSE run[r].final_output)
    /\ UNCHANGED <<mcpVars, regVars>>

\* await self._summariser_agent.run(prompt) is over: run() stores what
\* _run_summariser returns and returns the answer.
SummariserDone(r, o) ==
    /\ run[r].pc = "summarising"
    /\ LET k == run[r].call
           e == summariser_log[k]
       IN  /\ summariser_log' = [summariser_log EXCEPT ![k].outcome = o]
           /\ conversation_summary' =
                 CASE o = "text"  -> [n |-> k, merged |-> e.merged, turns |-> e.turns]
                   [] o = "blank" -> EmptySummary         \* summary.strip() is ""
                   [] o = "fail"  -> conversation_summary \* keeps the previous summary
    /\ run' = [run EXCEPT ![r].pc = "returned"]
    /\ queue' = [queue EXCEPT ![r] = IF run[r].writer THEN Epilog(@, FALSE, <<>>) ELSE @]
    /\ UNCHANGED <<conversation_history, events, gen, turns, exchanges, close_log, mcpVars, regVars>>

\* text of the error event made from a queue item: chunk[len("__ERROR__:"):]
ErrorMessage(text) == SubSeq(text, Len(Marker) + 1, Len(text))

\* the drain loop going on after an error item
AfterErrorItemContinues == "drain"

\* the drain loop stops after an error item
AfterErrorItem == "closed_error"

\* One iteration of the drain loop of sse_generator: chunk = await queue.get().
GenGet(r) ==
    /\ gen[r] = "drain"
    /\ queue[r] # <<>>
    /\ LET chunk == Head(queue[r])
       IN  /\ queue' = [queue EXCEPT ![r] = Tail(@)]
           /\ IF chunk.none
                THEN /\ gen' = [gen EXCEPT ![r] = "closed_done"]      \* break
                     /\ events' = events
                ELSE IF StartsWith(chunk.text, Marker)
                       THEN /\ events' = [events EXCEPT ![r] =
                                   Append(@, [type |-> "error",
                                              text |-> ErrorMessage(chunk.text)])]
                            /\ gen' = [gen EXCEPT ![r] = AfterErrorItem]  \* break
                       ELSE /\ events' = [events EXCEPT ![r] =
                                   Append(@, [type |-> "content", text |-> chunk.text])]
                            /\ gen' = gen
    /\ UNCHANGED <<conversation_history, conversation_summary, run, turns, exchanges,
                   summariser_log, close_log, mcpVars, regVars>>

\* ----------------------------------------------- specifications of sessions

\* no tool client has been started
NoTransport ==
    /\ client = NoClient
    /\ procs = NoClient
    /\ alive = [n \in Names |-> FALSE]
    /\ reader = [n \in Names |-> FALSE]
    /\ next_id = [n \in Names |-> 1]
    /\ stdout = [n \in Names |-> <<>>]
    /\ response_queue = [n \in Names |-> <<>>]
    /\ task = [t \in Tasks |-> Idle]
    /\ script = <<>>
    /\ requests = [n \in Names |-> <<>>]
    /\ replied = [n \in Names |-> {}]
    /\ junk = 0
    /\ inboxed = [n \in Names |-> {}]
    /\ history = {}
    /\ ensure_calls = [n \in Names |-> 0]
    /\ ensured_ready = [n \in Names |-> 0]

\* exchanges a session of the server has had, one after the other, when the
\* requests that are looked at begin
PriorTurns == {0, SummaryPeriod - 1}

\* The command-line loop of main(): one message after the other.
SessionInit == NoTransport /\ SessionIdle

SessionNext ==
    \/ \E r \in Tasks : RunCall(r)
    \/ \E r \in Tasks, out \in Outputs : ModelReturn(r, out)
    \/ \E r \in Tasks, m \in ExcMessages : ModelRaise(r, m)
    \/ \E r \in Tasks, o \in SummariserOutcomes : SummariserDone(r, o)

SessionSpec == SessionInit /\ [][SessionNext]_vars

\* A session of the server that gets /api/chat requests, which may overlap.
ChatInit ==
    /\ NoTransport
    /\ close_log = <<>>
    /\ NoRequest
    /\ \E k \in PriorTurns : SessionAfter(k)

ChatNext ==
    \/ \E r \in Tasks : ChatRequest(r)
    \/ \E r \in Tasks, out \in Outputs : ModelReturn(r, out)
    \/ \E r \in Tasks, m \in ExcMessages : ModelRaise(r, m)
    \/ \E r \in Tasks, o \in SummariserOutcomes : SummariserDone(r, o)

ChatSpec == ChatInit /\ [][ChatNext]_vars

\* A session of the server that gets /api/chat/stream requests, each sent
\* when the stream before is over, and /api/chat requests at any time.
StreamNext ==
    \/ \E r \in Tasks : StreamRequest(r)
    \/ \E r \in Tasks : ChatRequest(r)
    \/ \E r \in Tasks, out \in Outputs : ModelReturn(r, out)
    \/ \E r \in Tasks : GenStart(r)
    \/ \E r \in Tasks, c \in Chunks : StreamChunk(r, c)
    \/ \E r \in Tasks, out \in Outputs : StreamEnd(r, out)
    \/ \E r \in Tasks, m \in ExcMessages : ModelRaise(r, m)
    \/ \E r \in Tasks, o \in SummariserOutcomes : SummariserDone(r, o)
    \/ \E r \in Tasks : GenGet(r)

\* The stream requests begin when the session has had two exchanges, so that
\* the first of them is an exchange after which the summariser is due.
StreamInit ==
    /\ NoTransport
    /\ close_log = <<>>
    /\ NoRequest
    /\ SessionAfter(SummaryPeriod - 1)

StreamSpec == StreamInit /\ [][StreamNext]_vars

\* the steps of the streamed requests alone
DrainNext ==
    \/ \E r \in Tasks : StreamRequest(r)
    \/ \E r \in Tasks : GenStart(r)
    \/ \E r \in Tasks, c \in Chunks : StreamChunk(r, c)
    \/ \E r \in Tasks, out \in Outputs : StreamEnd(r, out)
    \/ \E r \in Tasks, m \in ExcMessages : ModelRaise(r, m)
    \/ \E r \in Tasks, o \in SummariserOutcomes : SummariserDone(r, o)
    \/ \E r \in Tasks : GenGet(r)

\* The streamed requests under the scheduling of the event loop: a task that
\* can run is run, the consumer keeps reading the response, and a call of the
\* model or of the summariser comes to an end, by a result or an exception.
FairStreamSpec ==
    /\ StreamInit
    /\ [][DrainNext]_vars
    /\ \A r \in Tasks :
          /\ WF_vars(GenStart(r))
          /\ WF_vars(GenGet(r))
          /\ WF_vars((\E out \in Outputs : StreamEnd(r, out))
                        \/ (\E m \in ExcMessages : ModelRaise(r, m)))
          /\ WF_vars(\E o \in SummariserOutcomes : SummariserDone(r, o))

\* ------------------------------------------------------- claims on sessions

Running == {r \in Tasks : run[r].pc \in {"model", "summarising"}}

Closed(r) == gen[r] \in {"closed_done", "closed_error"}

RECURSIVE Concat(_)
Concat(texts) == IF texts = <<>> THEN <<>> ELSE Head(texts) \o Concat(Tail(texts))

RECURSIVE TextsOf(_, _)
TextsOf(ev, type) ==
    IF ev = <<>> THEN <<>>
    ELSE IF Head(ev).type = type THEN <<Head(ev).text>> \o TextsOf(Tail(ev), type)
         ELSE TextsOf(Tail(ev), type)

IsPrefix(p, q) == Len(p) <= Len(q) /\ SubSeq(q, 1, Len(p)) = p

ContentEvents(texts) == [i \in 1..Len(texts) |-> [type |-> "content", text |-> texts[i]]]

\* C13: the steps of a run() call up to an exception of the model (chunks
\* handed to the writer included) leave conversation_history and
\* conversation_summary as they are, the call ends raised with the exception
\* of the model, and no exchange of a call that raised is in the history.
C13_FailedRunLeavesSessionUnchanged ==
    /\ [][ \A r \in Tasks :
             /\ (run[r].pc = "model" /\ run'[r] # run[r]
                   /\ run'[r].pc \in {"model", "raised"})
                => /\ conversation_history' = conversation_history
                   /\ conversation_summary' = conversation_summary
             /\ (run[r].pc # "raised" /\ run'[r].pc = "raised")
                => (run[r].pc = "model" /\ run'[r].exc \in ExcMessages)
         ]_vars
    /\ [](\A r \in Tasks : run[r].pc = "raised" =>
             \A i \in 1..Len(conversation_history) :
                 conversation_history[i].user # run[r].msg)

\* C13 witness: a streamed run raised after fragments had been handed to the
\* writer, and a non-streaming run raised, on a session that has a history.
C13_Witness ==
    \E r \in Tasks, u \in Tasks :
        /\ run[r].pc = "raised" /\ run[r].writer /\ run[r].sent # <<>>
        /\ run[u].pc = "raised" /\ ~run[u].writer
        /\ Len(conversation_history) >= SummaryPeriod - 1

\* C14: at most one run() of the session is executing at any time.
C14_SingleWriter == Cardinality(Running) <= 1

\* C15: the stream of every streamed request comes to an end, and it ends
\* either by an error event, which is then its last event and its only error
\* event, or normally with no error event at all; no error event is followed
\* by anything.
C15_ExactlyOneTerminalOutcome ==
    /\ [](\A r \in Tasks :
            LET errors == TextsOf(events[r], "error")
            IN  /\ gen[r] = "closed_error" =>
                      (Len(errors) = 1 /\ events[r][Len(events[r])].type = "error")
                /\ gen[r] # "closed_error" => errors = <<>>)
    /\ \A r \in Tasks : (gen[r] = "opened") ~> Closed(r)

\* C15 witness: a stream has ended by an error event after a content event,
\* the run having raised after it had handed a fragment to the writer.
C15_Witness ==
    \E r \in Tasks :
        /\ gen[r] = "closed_error" /\ run[r].pc = "raised"
        /\ TextsOf(events[r], "content") # <<>>
        /\ queue[r] = <<NoneItem>>

\* C16: when a streamed request has succeeded and its stream has ended, the
\* texts of its content events, concatenated in order, are the assistant text
\* that run() returned and stored in the history.
C16_ContentConcatIsAssistantText ==
    \A r \in Tasks :
        (run[r].writer /\ run[r].pc = "returned" /\ Closed(r))
        => /\ Concat(TextsOf(events[r], "content")) = run[r].response
           /\ \E i \in 1..Len(conversation_history) :
                 conversation_history[i] = [user |-> run[r].msg,
                                            assistant |-> run[r].response]

\* C17: the texts of the content events are, in order and each once, the
\* fragments the writer was called with: a prefix of them at any time, all of
\* them once the stream has ended.
C17_ContentEventsInOrderOnce ==
    \A r \in Tasks :
        /\ IsPrefix(TextsOf(events[r], "content"), run[r].sent)
        /\ Closed(r) => TextsOf(events[r], "content") = run[r].sent

\* C18: when the run of a streamed request has raised and the stream has
\* ended, the events are the chat_id event, one content event for every
\* fragment the writer got before the failure, in order, and last one error
\* event with the message of the exception.
C18_FailureDeliveredAfterContent ==
    \A r \in Tasks :
        (run[r].writer /\ run[r].pc = "raised" /\ Closed(r))
        => events[r] = <<[type |-> "chat_id", text |-> <<>>]>>
                          \o ContentEvents(run[r].sent)
                          \o <<[type |-> "error", text |-> run[r].exc]>>

\* every summariser call made so far has returned a text
SummariserSucceeds ==
    \A k \in 1..Len(summariser_log) : summariser_log[k].outcome \in {"text", "pending"}

\* C19: with a summariser that succeeds and no call in progress, the summary
\* is empty after exchanges 1 and 2; after exchanges 3, 4 and 5 it is the
\* text of the first summariser call, made from exchanges 1 to 3 alone; after
\* exchange 6 it is the text of a second call whose prompt held the first
\* summary and exchanges 4 to 6.
C19_SummaryAfterThreeAndSix ==
    (SummariserSucceeds /\ Quiet) =>
        /\ exchanges < SummaryPeriod => conversation_summary = EmptySummary
        /\ (exchanges >= SummaryPeriod /\ exchanges < 2 * SummaryPeriod) =>
              conversation_summary =
                 [n |-> 1, merged |-> 0, turns |-> [i \in 1..SummaryPeriod |-> i]]
        /\ exchanges = 2 * SummaryPeriod =>
              conversation_summary =
                 [n |-> 2, merged |-> 1,
                  turns |-> [i \in 1..SummaryPeriod |-> SummaryPeriod + i]]

\* C19 witness: six exchanges have been made, two summariser calls have
\* returned a text and the summary is that of the second.
C19_Witness ==
    /\ exchanges = 2 * SummaryPeriod /\ Quiet /\ SummariserSucceeds
    /\ Len(summariser_log) = 2
    /\ conversation_summary.n = 2 /\ conversation_summary.merged = 1

\* C20: the summariser has been run after the n-th exchange exactly for the
\* n that are multiples of 3, for every n up to the number of exchanges made.
C20_SummariserEveryThirdExchange ==
    \A n \in 1..exchanges :
        (\E k \in 1..Len(summariser_log) : summariser_log[k].at = n)
        <=> (n % SummaryPeriod = 0)

\* the step ends the summariser call of r without a usable text
SummariserUnusable(r) ==
    /\ run[r].pc = "summarising"
    /\ run'[r].pc = "returned"
    /\ summariser_log'[run[r].call].outcome \in {"blank", "fail"}

\* C21: when the summariser call of a turn ends by an exception or with no
\* usable text (none, not a string, or white space only), run() returns the
\* answer, the exchange of the turn is in the history and
\* conversation_summary is what it was before the turn.
C21_SummariserFailureKeepsSummary ==
    [][ \A r \in Tasks : SummariserUnusable(r) =>
          /\ run'[r].response = run[r].response
          /\ \E i \in 1..Len(conversation_history') :
                conversation_history'[i] = [user |-> run[r].msg,
                                            assistant |-> run[r].response]
          /\ conversation_summary' = conversation_summary ]_vars

\* C22: conversation_history never holds more than
\* max_history_for_summariser exchanges.
C22_HistoryCapped == Len(conversation_history) <= max_history_for_summariser

\* C22 witness: a thirteenth exchange has been appended and the first one cut,
\* on a session that has no summary.
C22_Witness ==
    /\ exchanges > max_history_for_summariser
    /\ Len(conversation_history) = max_history_for_summariser
    /\ conversation_history[1].user = 2
    /\ conversation_summary = EmptySummary

\* ------------------------------------------ api_server: the session registry

\* chat_id is None; the one id a client makes up; the k-th str(uuid.uuid4())
NoId == [uuid |-> FALSE, k |-> 0]
GivenId == [uuid |-> FALSE, k |-> 1]

\* a generator of ids that gives the same id every time
UuidRepeated(k) == [uuid |-> TRUE, k |-> 0]

\* str(uuid.uuid4()): an id no one has had before
Uuid(k) == [uuid |-> TRUE, k |-> k]

\* a registry that mints an id whatever the caller supplied
NewChatIdMinted(arg, k) == Uuid(k)

\* new_chat_id = chat_id or str(uuid.uuid4())
NewChatId(arg, k) == IF arg # NoId THEN arg ELSE Uuid(k)

\* the order in which _get_or_create_agent warms the clients
WarmOrder == <<"blinkit", "payment", "travel">>

\* UnifiedAgent(), made for the id: no client.  chan[n] is "none" while the
\* client is None, "unready" once it is memoized, "ready" when its initialize
\* has returned; failed is the channel whose warm-up raised; used[n] is how
\* the first tool use on the channel after the warm-up ended.
NewAgent(id) == [id |-> id, chan |-> [n \in Names |-> "none"], failed |-> "none",
                 closes |-> 0, raised |-> 0, used |-> [n \in Names |-> "none"]]

\* if chat_id and chat_id in _chat_agents
Known(arg) == arg # NoId /\ \E e \in chat_agents : e.id = arg

\* _chat_agents[id] = agent
Register(id, a) == {e \in chat_agents : e.id # id} \cup {[id |-> id, agent |-> a]}

\* except Exception as e: logger.error(...) -- the agent is stored all the same
OnWarmFailure == "register"

\* The end of _get_or_create_agent for the new agent of slot c: the except
\* clause if the warm-up of channel f raised (f = "none": it did not), the
\* store into _chat_agents and the return.  ags and g are the agents and the
\* slot as the step has left them so far.
GocEnd(c, g, f, ags) ==
    LET stored == f = "none" \/ OnWarmFailure = "register"
    IN  /\ agents' = [ags EXCEPT ![g.agent].failed = f]
        /\ chat_agents' = IF stored THEN Register(g.id, g.agent) ELSE chat_agents
        /\ goc' = [goc EXCEPT ![c] = [g EXCEPT !.pc = IF stored THEN "returned" ELSE "raised",
                                               !.stage = 0]]

\* a new call takes the lowest slot that has no call in progress
FreeGoc(c) ==
    /\ goc[c].pc # "warm"
    /\ \A u \in Tasks : u < c => goc[u].pc = "warm"

\* await _get_or_create_agent(chat_id) up to its first await: the lookup, and
\* for an id that is not there a new UnifiedAgent and the start of
\* _ensure_blinkit, whose McpClient(...) may raise (popenOk = FALSE).
GocCall(c, arg, popenOk) ==
    /\ FreeGoc(c)
    /\ reg_log.lookups < MaxLookups
    /\ reg_log' = [reg_log EXCEPT !.lookups = @ + 1]
    /\ IF Known(arg)
         THEN /\ popenOk
              /\ LET e == CHOOSE e \in chat_agents : e.id = arg
                 IN  goc' = [goc EXCEPT ![c] = [pc |-> "returned", arg |-> arg, id |-> arg,
                                                agent |-> e.agent, stage |-> 0,
                                                created |-> FALSE]]
              /\ UNCHANGED <<chat_agents, agents>>
         ELSE LET a == Len(agents) + 1
                  id == NewChatId(arg, a)
                  g == [pc |-> "warm", arg |-> arg, id |-> id, agent |-> a,
                        stage |-> 1, created |-> TRUE]
              IN  IF popenOk
                    THEN /\ agents' = Append(agents,
                                [NewAgent(id) EXCEPT !.chan[WarmOrder[1]] = "unready"])
                         /\ goc' = [goc EXCEPT ![c] = g]
                         /\ chat_agents' = chat_agents
                    ELSE GocEnd(c, g, WarmOrder[1], Append(agents, NewAgent(id)))
    /\ UNCHANGED <<mcpVars, sessVars>>

\* The initialize() that _get_or_create_agent awaits is over (initOk: it
\* returned): the call runs on to the next _ensure_*, whose McpClient(...)
\* may raise, or to its end.
WarmStep(c, initOk, popenOk) ==
    /\ goc[c].pc = "warm"
    /\ LET a == goc[c].agent
           st == goc[c].stage
           n == WarmOrder[st]
           ready == [agents EXCEPT ![a].chan[n] = "ready"]
       IN  IF ~initOk
             THEN popenOk /\ GocEnd(c, goc[c], n, agents)
             ELSE IF st = Len(WarmOrder)
                    THEN popenOk /\ GocEnd(c, goc[c], "none", ready)
                    ELSE IF popenOk
                           THEN /\ agents' = [ready EXCEPT ![a].chan[WarmOrder[st + 1]] = "unready"]
                                /\ goc' = [goc EXCEPT ![c].stage = st + 1]
                                /\ chat_agents' = chat_agents
                           ELSE GocEnd(c, goc[c], WarmOrder[st + 1], ready)
    /\ UNCHANGED <<reg_log, mcpVars, sessVars>>

\* the get-or-create call that made agent a is over
Warmed(a) == \A c \in Tasks : ~(goc[c].pc = "warm" /\ goc[c].agent = a)

\* A tool wrapper of agent a on channel n, start to end: await
\* self._ensure_n(), which starts the client if none is memoized, then
\* await self.n_client.call_tool(...).  popenOk, initOk and callOk say
\* whether McpClient(...), initialize() and call_tool() return.
ToolUse(a, n, popenOk, initOk, callOk) ==
    /\ reg_log.tools < MaxEnsure
    /\ Warmed(a)
    /\ agents[a].closes = 0
    /\ LET was == agents[a].chan[n]
           started == was # "none" \/ popenOk
           ensured == was # "none" \/ (popenOk /\ initOk)
           now == IF was # "none" THEN was
                  ELSE IF ~popenOk THEN "none"
                  ELSE IF initOk THEN "ready" ELSE "unready"
           outcome == IF ensured /\ callOk THEN "result" ELSE "error"
       IN  /\ was # "none" => (popenOk /\ initOk)
           /\ ~started => initOk
           /\ ~ensured => callOk
           /\ agents' = [agents EXCEPT ![a].chan[n] = now,
                                       ![a].used[n] = IF @ = "none" THEN outcome ELSE @]
    /\ reg_log' = [reg_log EXCEPT !.tools = @ + 1]
    /\ UNCHANGED <<chat_agents, goc, mcpVars, sessVars>>

\* a shutdown that gives up at the first close() that raises
OnCloseErrorAbort == "abort"

\* except Exception as e: logger.error(...) -- the loop goes on
OnCloseError == "continue"

\* shutdown_event: close() is awaited on every agent of _chat_agents in turn
\* (close() has no await inside, so the loop is one step), raising for the
\* agents of F; then the dict is cleared.
Shutdown(F) ==
    /\ reg_log.shutdowns < MaxClose
    /\ F \subseteq {e.agent : e \in chat_agents}
    /\ LET registered == {e.agent : e \in chat_agents}
           reached == IF OnCloseError = "continue" THEN registered
                      ELSE {a \in registered : \A b \in F : a <= b}
           done == OnCloseError = "continue" \/ F = {}
       IN  /\ agents' = [a \in 1..Len(agents) |->
                           IF a \in reached
                             THEN [agents[a] EXCEPT !.closes = @ + 1,
                                       !.raised = IF a \in F THEN @ + 1 ELSE @]
                             ELSE agents[a]]
           /\ chat_agents' = IF done THEN {} ELSE chat_agents
    /\ reg_log' = [reg_log EXCEPT !.shutdowns = @ + 1]
    /\ UNCHANGED <<goc, mcpVars, sessVars>>

\* the ids a request may carry: none, one made up by the client, or the id of
\* a session the client has been given
RequestIds == {NoId, GivenId} \cup {e.id : e \in chat_agents}

\* The server from its start, with tool servers that answer once they have
\* started: sessions are looked up or made, and at some point the server is
\* shut down.
RegistryInit == NoTransport /\ SessionIdle

RegistryNext ==
    \/ \E c \in Tasks, arg \in RequestIds, popenOk \in BOOLEAN : GocCall(c, arg, popenOk)
    \/ \E c \in Tasks : WarmStep(c, TRUE, TRUE)
    \/ \E F \in SUBSET (1..Len(agents)) : Shutdown(F)

RegistrySpec == RegistryInit /\ [][RegistryNext]_vars

\* POST /api/chat/create on a server that has made no session yet:
\* await _get_or_create_agent(None)
create_chat(c, popenOk) ==
    /\ agents = <<>>
    /\ GocCall(c, NoId, popenOk)

\* The first session of a server whose tool servers may fail to start or to
\* answer: it is made, and then its tools are used.
WarmNext ==
    \/ \E c \in Tasks, popenOk \in BOOLEAN : create_chat(c, popenOk)
    \/ \E c \in Tasks, initOk \in BOOLEAN, popenOk \in BOOLEAN : WarmStep(c, initOk, popenOk)
    \/ \E a \in 1..Len(agents), n \in Names, popenOk \in BOOLEAN, initOk \in BOOLEAN,
          callOk \in BOOLEAN : ToolUse(a, n, popenOk, initOk, callOk)

WarmSpec == RegistryInit /\ [][WarmNext]_vars

\* the step is a get-or-create call entering slot c
Lookup(c) == reg_log'.lookups = reg_log.lookups + 1 /\ goc'[c] # goc[c]

\* C23: two get-or-create calls without an id return two different sessions
\* under two different ids, and a call with an id that is in the registry
\* returns the session registered under it and that id, and creates nothing.
C23_GetOrCreate ==
    [][/\ \A a, b \in 1..Len(agents') :
             (a # b /\ agents'[a].id.uuid /\ agents'[b].id.uuid)
                 => agents'[a].id # agents'[b].id
       /\ \A c \in Tasks :
             (Lookup(c) /\ goc'[c].arg = NoId)
                 => /\ goc'[c].created
                    /\ goc'[c].agent = Len(agents) + 1
                    /\ goc'[c].id = agents'[goc'[c].agent].id
                    /\ goc'[c].id.uuid
       /\ \A c \in Tasks :
             (Lookup(c) /\ Known(goc'[c].arg))
                 => /\ goc'[c].pc = "returned"
                    /\ ~goc'[c].created
                    /\ goc'[c].id = goc'[c].arg
                    /\ [id |-> goc'[c].arg, agent |-> goc'[c].agent] \in chat_agents
                    /\ agents' = agents
                    /\ chat_agents' = chat_agents]_vars

\* two sessions made without an id are registered, and a call with the id of
\* one of them has returned it
C23_Witness ==
    /\ \E e, f \in chat_agents : e.id.uuid /\ f.id.uuid /\ e.agent # f.agent
    /\ \E c \in Tasks :
          /\ goc[c].pc = "returned"
          /\ ~goc[c].created
          /\ goc[c].id.uuid
          /\ [id |-> goc[c].id, agent |-> goc[c].agent] \in chat_agents

\* C24 as stated: a call with an id that is given but not in the registry
\* returns a newly generated id, not the id it was given.
C24_UnknownIdMinted ==
    \A c \in Tasks :
        (goc[c].pc # "idle" /\ goc[c].created /\ goc[c].arg # NoId)
            => (goc[c].id.uuid /\ goc[c].id # goc[c].arg)

\* C24: a call with an id that is given but not in the registry makes a new
\* session and returns it under the id it was given; an id is generated only
\* for a call without an id.
C24_UnknownIdAdopted ==
    \A c \in Tasks :
        (goc[c].pc # "idle" /\ goc[c].created)
            => /\ agents[goc[c].agent].id = goc[c].id
               /\ goc[c].arg # NoId => goc[c].id = goc[c].arg
               /\ goc[c].arg = NoId => goc[c].id.uuid

\* a call with an id the registry did not have has returned a new session,
\* registered under that id
C24_Witness ==
    \E c \in Tasks :
        /\ goc[c].pc = "returned"
        /\ goc[c].created
        /\ goc[c].arg = GivenId
        /\ [id |-> GivenId, agent |-> goc[c].agent] \in chat_agents

\* the step ends the get-or-create call of slot c that made a session
Created(c) ==
    /\ goc'[c].created
    /\ goc'[c].pc # "warm"
    /\ goc[c].pc = "warm" \/ Lookup(c)

\* C25: when the warm-up of a channel fails, get-or-create registers the new
\* session under its id and returns it, and the first tool use on that
\* channel afterwards ends in an error.
C25_WarmFailureDeferred ==
    [][/\ \A c \in Tasks :
             (Created(c) /\ agents'[goc'[c].agent].failed # "none")
                 => /\ goc'[c].pc = "returned"
                    /\ [id |-> goc'[c].id, agent |-> goc'[c].agent] \in chat_agents'
       /\ \A a \in 1..Len(agents'), n \in Names :
             (agents'[a].failed = n /\ agents'[a].used[n] # "none")
                 => agents'[a].used[n] = "error"]_vars


\* C26: the shutdown calls close() on every session of the registry, also
\* when close() raises for some of them, and leaves the registry empty.
C26_ShutdownClosesAll ==
    [][reg_log'.shutdowns = reg_log.shutdowns + 1
          => /\ \A e \in chat_agents : agents'[e.agent].closes = agents[e.agent].closes + 1
             /\ chat_agents' = {}]_vars

\* a shutdown has closed two sessions although closing the first one raised
C26_Witness ==
    /\ reg_log.shutdowns = 1
    /\ chat_agents = {}
    /\ \E a, b \in 1..Len(agents) :
          /\ a < b
          /\ agents[a].closes = 1 /\ agents[a].raised = 1
          /\ agents[b].closes = 1 /\ agents[b].raised = 0


\* C27: in the stream of a session the chat_id event is sent once and first,
\* the content events come after it, and an error event ends the stream: no
\* event follows it.
C27_StreamEventOrder ==
    \A r \in Tasks :
        gen[r] # "none"
            => /\ events[r] # <<>>
               /\ \A i \in 1..Len(events[r]) :
                     /\ events[r][i].type = "chat_id" <=> i = 1
                     /\ events[r][i].type \in {"chat_id", "content", "error"}
                     /\ events[r][i].type = "error"
                           => (i = Len(events[r]) /\ gen[r] = "closed_error")
               /\ gen[r] = "closed_error" => events[r][Len(events[r])].type = "error"

\* a stream has sent chat_id, content and an error event and has ended with
\* an item still on its queue
C27_Witness ==
    \E r \in Tasks :
        /\ gen[r] = "closed_error"
        /\ Len(events[r]) >= 3
        /\ events[r][2].type = "content"
        /\ \E i \in 1..Len(queue[r]) : ~queue[r][i].none


\* the items the step has put on the queue of slot r
Put(r) ==
    IF Len(queue'[r]) > Len(queue[r])
      THEN SubSeq(queue'[r], Len(queue[r]) + 1, Len(queue'[r]))
      ELSE <<>>

\* the step is the end of run_agent in slot r
RunAgentEnds(r) ==
    /\ run[r].writer
    /\ run[r].pc \in {"model", "summarising"}
    /\ run'[r].pc \in {"returned", "raised"}

\* C28 as stated: every run of the background task puts exactly one terminal
\* item on the queue, None after success or the error item after a failure,
\* as the last item, and nothing after it.
C28_OneTerminalItem ==
    [][\A r \in Tasks :
          /\ RunAgentEnds(r)
                => Put(r) = <<IF run'[r].pc = "raised" THEN Item(Marker \o run'[r].exc)
                                                      ELSE NoneItem>>
          /\ ~RunAgentEnds(r) => \A i \in 1..Len(Put(r)) : ~Put(r)[i].none
          /\ run[r].pc \in {"returned", "raised"} => Put(r) = <<>>]_vars

\* C28: every run of the background task puts None on the queue exactly once,
\* as the last item; after a failure the error item is put right before it,
\* and nothing is put after None.
C28_NoneLastErrorBefore ==
    [][\A r \in Tasks :
          /\ RunAgentEnds(r)
                => Put(r) = IF run'[r].pc = "raised"
                              THEN <<Item(Marker \o run'[r].exc), NoneItem>>
                              ELSE <<NoneItem>>
          /\ ~RunAgentEnds(r) => \A i \in 1..Len(Put(r)) : ~Put(r)[i].none
          /\ run[r].pc \in {"returned", "raised"} => Put(r) = <<>>]_vars

\* a failed run has put a fragment, the error item and None on the queue
C28_Witness ==
    \E r \in Tasks :
        /\ run[r].pc = "raised"
        /\ run[r].writer
        /\ Len(queue[r]) = 3
        /\ queue[r][1] = Item(run[r].sent[1])
        /\ queue[r][2] = Item(Marker \o run[r].exc)
        /\ queue[r][3] = NoneItem


\* One McpClient whose server stays up, answers the requests it gets and
\* prints other lines in between.
ReaderNext ==
    \/ \E t \in Tasks, n \in Names : RpcCall(t, n)
    \/ \E t \in Tasks : PollGet(t)
    \/ \E t \in Tasks : PollEmpty(t)
    \/ \E n \in Names : ReaderStep(n)
    \/ \E n \in Names, i \in 1..MaxCalls, e \in BOOLEAN : ServerReply(n, i, e)
    \/ \E n \in Names, k \in JunkKinds : ServerJunk(n, k)

ReaderSpec == Init /\ [][ReaderNext]_vars

\* C29: no line stops the reader: while the server is up the reader thread
\* is running, whatever lines it has read, and what it has put on the inbox
\* are the replies it has read.
C29_ReaderSurvivesAnyLine ==
    \A n \in Names :
        (client[n] # 0 /\ alive[n])
            => /\ reader[n]
               /\ \A m \in inboxed[n] : m.id \in replied[n]


\* the step is an iteration of the chunk loop of slot r whose chunk extends
\* the chunk before it
Snapshot(r) ==
    /\ run[r].pc = "model"
    /\ run'[r].chunks = run[r].chunks + 1
    /\ IsPrefix(run[r].previous_output, run'[r].previous_output)

\* C30: when a chunk is the text so far and extends the previous chunk, the
\* writer gets exactly the part beyond the previous chunk, and gets nothing
\* when that part is empty; so as long as every chunk extends the one before
\* it the fragments handed over add up to the last chunk, no character twice.
C30_SuffixOnly ==
    [][\A r \in Tasks :
          Snapshot(r)
              => LET part == SubSeq(run'[r].previous_output,
                                    Len(run[r].previous_output) + 1,
                                    Len(run'[r].previous_output))
                     out == IF part = <<>> THEN <<>> ELSE <<part>>
                 IN  /\ run'[r].sent = run[r].sent \o out
                     /\ Put(r) = [i \in 1..Len(out) |-> Item(out[i])]
                     /\ \A i \in 1..Len(run'[r].sent) : run'[r].sent[i] # <<>>
                     /\ Concat(run[r].sent) = run[r].previous_output
                           => Concat(run'[r].sent) = run'[r].previous_output]_vars

\* two chunks, the second extending the first, have been handed over as two
\* fragments that add up to the second
C30_Witness ==
    \E r \in Tasks :
        /\ run[r].chunks = 2
        /\ Len(run[r].sent) = 2
        /\ Len(run[r].previous_output) = 2
        /\ Concat(run[r].sent) = run[r].previous_output


\* ------------------------------------------------------ termination of calls

\* the lines and messages between the server and the callers of client n that
\* answer no request of a caller (their id is 0; ids are given out from 1)
Strays(n) ==
    Cardinality({k \in 1..Len(stdout[n]) : stdout[n][k] = Reply(0, FALSE)})
        + Cardinality({k \in 1..Len(response_queue[n]) :
                          response_queue[n][k] = Msg(Reply(0, FALSE))})

\* The server prints a JSON-RPC object that has an id and answers no pending
\* call: a request of its own to the client, or a reply to a call that is
\* no longer waiting.  The reader puts it on response_queue like any reply.
ServerStray(n) ==
    /\ alive[n]
    /\ client[n] # 0
    /\ Strays(n) < MaxJunk
    /\ stdout' = [stdout EXCEPT ![n] = Append(@, Reply(0, FALSE))]
    /\ UNCHANGED <<procVars, response_queue, script, replied, junk, inboxed, callVars>>
    /\ UNCHANGED <<sessVars, regVars>>

\* One McpClient whose callers go on polling and whose reader thread goes on
\* reading; the server answers, prints other messages or exits as it likes.
LiveNext ==
    \/ \E t \in Tasks, n \in Names : RpcCall(t, n)
    \/ \E t \in Tasks : PollGet(t)
    \/ \E t \in Tasks : PollEmpty(t)
    \/ \E n \in Names : ReaderStep(n)
    \/ \E n \in Names : ReaderEOF(n)
    \/ \E n \in Names, i \in 1..MaxCalls, e \in BOOLEAN : ServerReply(n, i, e)
    \/ \E n \in Names : ServerStray(n)
    \/ \E n \in Names : ProcessExit(n)

LiveSpec ==
    /\ Init
    /\ [][LiveNext]_vars
    /\ \A t \in Tasks : WF_vars(PollGet(t) \/ PollEmpty(t))
    /\ \A n \in Names : WF_vars(ReaderStep(n))

\* C31: every call that is waiting for its reply ends, with a result or an
\* exception, whatever arrives on the inbox and whether or not the process
\* stays up.
C31_EveryCallCompletes ==
    \A t \in Tasks : (task[t].pc = "wait") ~> (task[t].pc = "idle")


\* --------------------------------------------------- retention of the history

\* no summariser call has returned white space only
NoBlankOutput == \A k \in 1..Len(summariser_log) : summariser_log[k].outcome # "blank"

\* C32 as stated: while there is no summary the stored history holds at most
\* the max_history_exchanges most recent exchanges.
C32_RecentOnlyWithoutSummary ==
    (conversation_summary = EmptySummary /\ NoBlankOutput)
        => Len(conversation_history) <= max_history_exchanges

\* C32: with or without a summary the stored history holds every exchange
\* made so far up to max_history_for_summariser of them; nothing is cut at
\* max_history_exchanges.
C32_SameCapWithoutSummary ==
    Len(conversation_history) =
        IF exchanges <= max_history_for_summariser THEN exchanges
                                                   ELSE max_history_for_summariser

\* a session without a summary, whose summariser has failed every time, holds
\* more than max_history_exchanges exchanges
C32_Witness ==
    /\ conversation_summary = EmptySummary
    /\ NoBlankOutput
    /\ Len(summariser_log) >= 1
    /\ Len(conversation_history) = max_history_exchanges + 2


\* ------------------------------------------------- a consumer that goes away

\* a server that cancels run_agent together with the generator
OnDisconnectCancel == "cancelled"

\* asyncio.create_task(run_agent()): the task is not tied to the generator
\* and goes on when the generator is closed
OnDisconnect == "detached"

\* The client goes away while sse_generator waits on queue.get(): the
\* generator is closed there, and reads the queue no more.
Disconnect(r) ==
    /\ gen[r] = "drain"
    /\ gen' = [gen EXCEPT ![r] = "disconnected"]
    /\ run' = IF OnDisconnect = "detached" \/ run[r].pc \notin {"model", "summarising"}
                THEN run
                ELSE [run EXCEPT ![r].pc = "cancelled"]
    /\ UNCHANGED <<conversation_history, conversation_summary, queue, events, turns,
                   exchanges, summariser_log, close_log, mcpVars, regVars>>

DisconnectNext ==
    \/ DrainNext
    \/ \E r \in Tasks : Disconnect(r)

\* The streamed requests with consumers that may go away: a task that can
\* run is run, and a call of the model or of the summariser comes to an end.
DisconnectSpec ==
    /\ StreamInit
    /\ [][DisconnectNext]_vars
    /\ \A r \in Tasks :
          /\ WF_vars((\E out \in Outputs : StreamEnd(r, out))
                        \/ (\E m \in ExcMessages : ModelRaise(r, m)))
          /\ WF_vars(\E o \in SummariserOutcomes : SummariserDone(r, o))

\* run_agent of slot r is over: None is the last item on the queue, and the
\* exchange of a run that returned is in the history
RunAgentOver(r) ==
    /\ run[r].pc \in {"returned", "raised"}
    /\ queue[r] # <<>>
    /\ queue[r][Len(queue[r])] = NoneItem
    /\ run[r].pc = "returned"
          => \E i \in 1..Len(conversation_history) :
                conversation_history[i] = [user |-> run[r].msg,
                                           assistant |-> run[r].response]

\* C33: no run is cancelled, and when the consumer has gone away while the
\* run was going on, the run still comes to its end, puts its last item on the
\* queue, and has appended its exchange if it returned; the items it puts are
\* never held back.
C33_RunSurvivesDisconnect ==
    /\ [](\A r \in Tasks : run[r].pc # "cancelled")
    /\ \A r \in Tasks :
          (gen[r] = "disconnected" /\ run[r].pc \in {"model", "summarising"})
              ~> (gen[r] = "disconnected" /\ RunAgentOver(r))

\* a run has returned after its consumer had gone away, leaving a fragment
\* and None on the queue
C33_Witness ==
    \E r \in Tasks :
        /\ gen[r] = "disconnected"
        /\ run[r].pc = "returned"
        /\ RunAgentOver(r)
        /\ Len(queue[r]) >= 2
        /\ ~queue[r][1].none


\* the items run_agent of slot r puts at its end, once it is over
Terminals(r) ==
    CASE run[r].pc = "returned" -> 1
      [] run[r].pc = "raised"   -> 2
      [] OTHER                  -> 0

\* C34 as stated: the queue of a stream holds no more than a fixed number of
\* items, here a number a run of MaxChunks fragments has to exceed if it is
\* not made to wait.
C34_ChannelBounded ==
    \A r \in Tasks : Len(queue[r]) <= MaxChunks

\* C34: the queue has no capacity: no run waits in a put, and as long as the
\* consumer has read nothing the queue holds every item the run has put, the
\* fragments and the items put at the end of the run.
C34_ChannelUnbounded ==
    \A r \in Tasks :
        /\ run[r].pc # "put_wait"
        /\ (run[r].writer /\ gen[r] = "drain" /\ Len(events[r]) = 1)
              => Len(queue[r]) = Len(run[r].sent) + Terminals(r)

\* a failed run has put MaxChunks fragments, the error item and None on a
\* queue of which nothing has been read
C34_Witness ==
    \E r \in Tasks :
        /\ gen[r] = "drain"
        /\ Len(events[r]) = 1
        /\ Len(run[r].sent) = MaxChunks
        /\ Len(queue[r]) = MaxChunks + 2


\* ------------------------------------------------ races on the registry

\* agent a is the value of some id in _chat_agents
Registered(a) == \E e \in chat_agents : e.agent = a

\* C35: of the sessions made for one id only one is not closed, whatever the
\* interleaving of the calls that carry the id, and a session with a started
\* tool client that get-or-create has returned is in the registry until it
\* is closed.
C35_OneSessionPerId ==
    /\ \A a, b \in 1..Len(agents) :
          (a # b /\ agents[a].id = agents[b].id)
              => (agents[a].closes > 0 \/ agents[b].closes > 0)
    /\ \A a \in 1..Len(agents) :
          (Warmed(a) /\ agents[a].closes = 0
                /\ \E n \in Names : agents[a].chan[n] # "none")
              => Registered(a)


\* ------------------------------------------------ an ensure after a failure

\* the initialize call of the client of name n has raised
InitFailedIn(hist, n) ==
    \E h \in hist : h.n = n /\ h.method = "initialize" /\ h.outcome # "result"

\* C36: once _ensure_n has raised because the handshake failed, an
\* _ensure_n that returns at once, the client being set, returns a client
\* whose handshake has been completed.
C36_NoUseAfterFailedHandshake ==
    [][\A n \in Names :
          (ensure_calls'[n] = ensure_calls[n] + 1 /\ client[n] # 0
                /\ InitFailedIn(history, n))
              => InitCompletedIn(history, n)]_vars


\* ------------------------------------------------ content and error events

\* C37: an error event is sent only for a run that has raised, with the
\* message of its exception, and every fragment handed to the writer is sent
\* as a content event, whatever its text.
C37_ErrorOnlyWhenRaised ==
    \A r \in Tasks :
        /\ \A i \in 1..Len(events[r]) :
              events[r][i].type = "error"
                  => (run[r].pc = "raised" /\ events[r][i].text = run[r].exc)
        /\ (Closed(r) /\ run[r].pc = "returned")
              => TextsOf(events[r], "content") = run[r].sent


\* C38: no step of run() takes conversation_summary from a summary back to
\* the empty summary.
C38_SummaryNeverEmptiedByRun ==
    [][conversation_summary # EmptySummary
          => conversation_summary' # EmptySummary]_vars


\* the step takes run() of slot r from the model call to the stored exchange
Answered(r) ==
    /\ run[r].pc = "model"
    /\ run'[r].pc \in {"returned", "summarising"}

\* C39: a run that succeeds puts its exchange at the end of the history, and
\* if that makes more than max_history_for_summariser the first one goes;
\* the others stay as they are and where they are, and no other step changes
\* the history.
C39_HistoryAppendOnly ==
    [][/\ \A r \in Tasks :
             Answered(r)
                 => LET h1 == conversation_history
                                 \o <<[user |-> run[r].msg, assistant |-> run'[r].response]>>
                    IN  conversation_history' =
                            IF Len(h1) > max_history_for_summariser THEN Tail(h1) ELSE h1
       /\ (\A r \in Tasks : ~Answered(r)) => conversation_history' = conversation_history
       /\ \A i, j \in 1..Len(conversation_history') :
             i < j => conversation_history'[i] # conversation_history'[j]]_vars

\* the thirteenth exchange has been stored behind the twelve before it, of
\* which the first has gone
C39_Witness ==
    /\ exchanges = max_history_for_summariser + 1
    /\ Len(conversation_history) = max_history_for_summariser
    /\ \A i \in 1..Len(conversation_history) : conversation_history[i].user = i + 1

====
